---- MODULE Spec2Model ----
(***************************************************************************)
(* Stock ledger (inventory/services.py) and MercadoLibre order ingestion   *)
(* (inventory/mercadolibre.py) of the ERP.                                 *)
(*                                                                         *)
(* Units.  Every Decimal the code keeps at two places (quantities, costs,  *)
(* VAT percentages) is an integer number of hundredths.  A value handed to *)
(* _to_decimal by a caller is an integer number of thousandths, so that    *)
(* the rounding _to_decimal performs is visible.                           *)
(***************************************************************************)
EXTENDS Integers, Sequences, FiniteSets, TLC

VARIABLES
    stock,        \* Stock table: (product, warehouse) -> [exists, quantity]
    avg_cost,     \* Product.avg_cost, the cost basis, per product
    vat_percent,  \* Product.vat_percent, per product
    movements,    \* StockMovement table, in insertion order
    last,         \* the most recent ledger call and how it ended
    sales,        \* Sale table, in insertion order (the id is the index)
    sale_items,   \* SaleItem table, in insertion order
    ml_items,     \* MercadoLibreItem table: item_id -> [exists, product]
    pc,           \* per caller of sync_order: where it stands in the function
    local,        \* per caller of sync_order: its local variables
    history,      \* the sync_order calls that have returned, in return order
    connection,   \* MercadoLibreConnection: access/refresh token and expiry
    now,          \* timezone.now(), in minutes
    batch,        \* the sync_recent_orders call: its order ids and counters
    cat,          \* the sync_items_and_stock call: its item ids and counters
    matching,     \* a _match_product call: its arguments and what it returned
    paging,       \* a get_item_ids call: its cursor and what it has gathered
    writers,      \* per ledger transaction in flight: its position and locals
    refreshers    \* per get_valid_access_token call in flight, and the endpoint

ledgerVars == <<stock, avg_cost, vat_percent, movements>>
syncVars == <<sales, sale_items, ml_items, pc, local, history>>
tokenVars == <<connection, now>>
passVars == <<batch, cat>>
sideVars == <<matching, paging, writers, refreshers>>
vars == <<stock, avg_cost, vat_percent, movements, last,
          sales, sale_items, ml_items, pc, local, history,
          connection, now, batch, cat,
          matching, paging, writers, refreshers>>

-----------------------------------------------------------------------------
(* Bounds and input sets *)

MaxMoves == 3

MaxSyncCalls == 3

MaxCatalogRuns == 2

\* the clock runs from 0 to MaxNow minutes
MaxNow == 2

Products == {"p1", "p2"}
Warehouses == {"COMUN", "MERCADOLIBRE"}
NoWarehouse == "null"
NoProduct == "null"
None == <<>>
Some(x) == <<x>>

\* who calls sync_order: the webhook view and the sync_recent_orders batch
Callers == {"webhook", "batch"}
\* remote catalog items and remote orders
Items == {"i1", "i2"}
Orders == {"o1", "o2"}
\* order_items of the remote order: item id ("" when absent) and quantity
OrderItems(o) ==
    IF o = "o1"
    THEN <<[item_id |-> "i1", quantity |-> 1000], [item_id |-> "i2", quantity |-> 2000]>>
    ELSE <<[item_id |-> "i1", quantity |-> 2000], [item_id |-> "", quantity |-> 1000],
           [item_id |-> "i2", quantity |-> 0], [item_id |-> "i2", quantity |-> 4]>>
\* what the remote answers for the order's status
Statuses == {"paid", "cancelled", "expired"}
\* urlopen raises instead of answering
HTTPError == "HTTPError"
\* what the token endpoint answers: a token pair, or the error payload that
\* _token_request builds from a non-2xx answer; expires_in in minutes
ExchangeResponses ==
    {[error |-> "", access_token |-> Some("tok1"), refresh_token |-> Some("ref1"),
      expires_in |-> 3]}
RefreshResponses ==
    {[error |-> "", access_token |-> Some("tok2"), refresh_token |-> Some("ref2"),
      expires_in |-> 3],
     [error |-> "http_error", access_token |-> None, refresh_token |-> None,
      expires_in |-> 0]}

\* Arguments of the calls, in thousandths as the caller hands them over.
\* Product p1 receives every kind of call; p2 only the calls that give it
\* a positive and a negative stock next to p1's.
\* Entry: <<quantity, gross unit cost, VAT %>>
EntryArgs(p) ==
    IF p = "p1"
    THEN {<<1000, 5000, None>>, <<2000, 7000, Some(21000)>>, <<1000, 7000, Some(0)>>,
          <<4, 5000, None>>, <<-1000, 5000, None>>}
    ELSE {<<1000, 5000, None>>}
\* Exit and Transfer: <<quantity, allow_negative>>
ExitArgs(p) ==
    IF p = "p1"
    THEN {<<1000, FALSE>>, <<2000, FALSE>>, <<2000, TRUE>>, <<4, FALSE>>, <<-1000, TRUE>>}
    ELSE {<<2000, TRUE>>}
TransferArgs(p) ==
    IF p = "p1" THEN {<<1000, FALSE>>, <<2000, TRUE>>, <<4, FALSE>>} ELSE {}
\* Adjustment: <<signed quantity, unit cost or None, allow_negative>>
AdjustmentArgs(p) ==
    IF p = "p1"
    THEN {<<1000, Some(5010), FALSE>>, <<2000, None, FALSE>>,
          <<-1000, None, FALSE>>, <<-2000, Some(5010), TRUE>>,
          <<4, None, FALSE>>, <<-4, None, TRUE>>}
    ELSE {}

-----------------------------------------------------------------------------
(* Decimal arithmetic *)

Abs(x) == IF x < 0 THEN -x ELSE x

\* n / d rounded to an integer, ties away from zero (ROUND_HALF_UP), d > 0
HalfUpDiv(n, d) ==
    IF n >= 0 THEN (2 * n + d) \div (2 * d)
    ELSE -((2 * (-n) + d) \div (2 * d))

\* thousandths -> hundredths, ROUND_HALF_UP
ToDecimal(value) == HalfUpDiv(value, 10)

RECURSIVE SumSeq(_)
SumSeq(s) == IF s = <<>> THEN 0 ELSE Head(s) + SumSeq(Tail(s))

RECURSIVE SumOver(_, _)
SumOver(f, S) ==
    IF S = {} THEN 0
    ELSE LET x == CHOOSE y \in S : TRUE IN f[x] + SumOver(f, S \ {x})

-----------------------------------------------------------------------------
(* The database as one value, and the transaction wrapper *)

DB == [stock |-> stock, avg_cost |-> avg_cost,
       vat_percent |-> vat_percent, movements |-> movements]

\* the caller's in-memory Product, read from the database
LoadProduct(d, p) == [id |-> p, avg_cost |-> d.avg_cost[p]]

Return(d) == [db |-> d, res |-> "ok"]
Raise(d, err) == [db |-> d, res |-> err]

\* @transaction.atomic: commit when the body returns, roll back when it raises
AtomicNoRollback(d, out) == out.db
Atomic(d, out) == IF out.res = "ok" THEN out.db ELSE d

Commit(d) ==
    /\ stock' = d.stock
    /\ avg_cost' = d.avg_cost
    /\ vat_percent' = d.vat_percent
    /\ movements' = d.movements

-----------------------------------------------------------------------------
(* services.py helpers *)

NoRow == [exists |-> FALSE, quantity |-> 0]

\* Stock.objects.select_for_update().get_or_create(..., quantity 0.00)
GetStockForUpdate(d, p, w) ==
    IF d.stock[<<p, w>>].exists THEN d
    ELSE [d EXCEPT !.stock[<<p, w>>] = [exists |-> TRUE, quantity |-> 0]]

\* Sum("quantity") over the product's Stock rows; no row: 0.00
TotalOverAllProducts(d, p) ==
    SumOver([k \in Products \X Warehouses |-> d.stock[k].quantity],
            {k \in Products \X Warehouses : d.stock[k].exists})
TotalStockQuantity(d, p) ==
    SumOver([w \in Warehouses |-> d.stock[<<p, w>>].quantity],
            {w \in Warehouses : d.stock[<<p, w>>].exists})

\* lines 45-52; current_avg is never None here
WeightedAverage(current_avg, current_qty, unit_cost, quantity) ==
    IF quantity <= 0 THEN current_avg
    ELSE LET total_cost == current_avg * current_qty + unit_cost * quantity
             new_total_qty == current_qty + quantity
         IN IF new_total_qty <= 0 THEN 0
            ELSE HalfUpDiv(total_cost, new_total_qty)

Movement(kind, p, from, to, qty, cost, vat, sale) ==
    [movement_type |-> kind, product |-> p, from_warehouse |-> from,
     to_warehouse |-> to, quantity |-> qty, unit_cost |-> cost,
     vat_percent |-> vat, sale |-> sale]

\* StockMovement.objects.create(...)
CreateMovement(d, m) == [d EXCEPT !.movements = Append(@, m)]

\* stock.quantity = ...; stock.save(update_fields=["quantity"])
SaveStock(d, p, w, q) == [d EXCEPT !.stock[<<p, w>>].quantity = q]

\* if not allow_negative and <quantity after the movement> < 0
BlocksAtZero(allow_negative, after) == ~allow_negative /\ after <= 0
IgnoresAllowNegative(allow_negative, after) == after < 0
NeverBlocks(allow_negative, after) == FALSE
WouldGoNegative(allow_negative, after) == ~allow_negative /\ after < 0

-----------------------------------------------------------------------------
(* The four ledger operations, as functions from the database to the       *)
(* database the body leaves behind and the way it ended                    *)

\* VAT-exclusive cost of an Entry, lines 73-77
CostBase(cost_with_vat, vat) ==
    IF vat > 0 THEN HalfUpDiv(cost_with_vat * 10000, 10000 + vat)
    ELSE cost_with_vat

\* the cost basis an Entry sets: the last purchase cost, lines 82-83
EntryAvgCostWeighted(current_avg, current_total, cost_base, qty) ==
    WeightedAverage(current_avg, current_total, cost_base, qty)
EntryAvgCost(current_avg, current_total, cost_base, qty) == cost_base

register_entry(d, product, warehouse, quantity, unit_cost, vat_in) ==
    LET p == product.id
        qty == ToDecimal(quantity)
        cost_with_vat == ToDecimal(unit_cost)
        vat == IF vat_in # None THEN ToDecimal(vat_in[1]) ELSE 0
    IN  IF qty <= 0 THEN Raise(d, "InvalidMovement")
        ELSE
        LET cost_base == CostBase(cost_with_vat, vat)
            d1 == GetStockForUpdate(d, p, warehouse)
            current_total == TotalStockQuantity(d1, p)
            d2 == [d1 EXCEPT
                     !.avg_cost[p] = EntryAvgCost(product.avg_cost, current_total,
                                                  cost_base, qty),
                     !.vat_percent[p] = IF vat_in # None THEN vat ELSE @]
            d3 == SaveStock(d2, p, warehouse, d2.stock[<<p, warehouse>>].quantity + qty)
        IN  Return(CreateMovement(d3,
                Movement("ENTRY", p, NoWarehouse, warehouse, qty, cost_with_vat, vat, 0)))

register_exit(d, product, warehouse, quantity, allow_negative, vat_in, sale) ==
    LET p == product.id
        qty == ToDecimal(quantity)
        vat == IF vat_in # None THEN ToDecimal(vat_in[1]) ELSE 0
    IN  IF qty <= 0 THEN Raise(d, "InvalidMovement")
        ELSE
        LET d1 == GetStockForUpdate(d, p, warehouse)
            cur == d1.stock[<<p, warehouse>>].quantity
        IN  IF WouldGoNegative(allow_negative, cur - qty) THEN Raise(d1, "NegativeStock")
            ELSE Return(CreateMovement(SaveStock(d1, p, warehouse, cur - qty),
                    Movement("EXIT", p, warehouse, NoWarehouse, qty,
                             product.avg_cost, vat, sale)))

register_transfer_moving(d, product, from_warehouse, to_warehouse, quantity, allow_negative) ==
    LET p == product.id
        qty == ToDecimal(quantity)
    IN  IF from_warehouse = to_warehouse THEN Raise(d, "InvalidMovement")
        ELSE IF qty <= 0 THEN Raise(d, "InvalidMovement")
        ELSE
        LET d1 == GetStockForUpdate(d, p, from_warehouse)
            cur == d1.stock[<<p, from_warehouse>>].quantity
            d2 == GetStockForUpdate(SaveStock(d1, p, from_warehouse, cur - qty),
                                    p, to_warehouse)
        IN  IF WouldGoNegative(allow_negative, cur - qty) THEN Raise(d1, "NegativeStock")
            ELSE Return(CreateMovement(
                    SaveStock(d2, p, to_warehouse,
                              d2.stock[<<p, to_warehouse>>].quantity + qty),
                    Movement("TRANSFER", p, from_warehouse, to_warehouse, qty,
                             product.avg_cost, 0, 0)))
register_transfer(d, product, from_warehouse, to_warehouse, quantity, allow_negative) ==
    LET p == product.id
        qty == ToDecimal(quantity)
    IN  IF from_warehouse = to_warehouse THEN Raise(d, "InvalidMovement")
        ELSE IF qty <= 0 THEN Raise(d, "InvalidMovement")
        ELSE
        LET d1 == GetStockForUpdate(d, p, from_warehouse)
            cur == d1.stock[<<p, from_warehouse>>].quantity
        IN  IF WouldGoNegative(allow_negative, cur - qty) THEN Raise(d1, "NegativeStock")
            ELSE Return(CreateMovement(SaveStock(d1, p, from_warehouse, cur - qty),
                    Movement("TRANSFER", p, from_warehouse, to_warehouse, qty,
                             product.avg_cost, 0, 0)))

\* movement_kwargs: the side of the movement an Adjustment writes
AdjustmentSidesAlwaysTo(qty, warehouse) ==
    [from_warehouse |-> NoWarehouse, to_warehouse |-> warehouse]
AdjustmentSides(qty, warehouse) ==
    IF qty > 0 THEN [from_warehouse |-> NoWarehouse, to_warehouse |-> warehouse]
    ELSE [from_warehouse |-> warehouse, to_warehouse |-> NoWarehouse]

\* "Adjustment quantity cannot be zero"
AdjustmentInvalidNonPositive(qty) == qty <= 0
AdjustmentInvalid(qty) == qty = 0

register_adjustment(d, product, warehouse, quantity, unit_cost, allow_negative) ==
    LET p == product.id
        qty == ToDecimal(quantity)
        sides == AdjustmentSides(qty, warehouse)
    IN  IF AdjustmentInvalid(qty) THEN Raise(d, "InvalidMovement")
        ELSE IF qty > 0 THEN
            LET cost == IF unit_cost # None THEN ToDecimal(unit_cost[1])
                        ELSE product.avg_cost
                d1 == GetStockForUpdate(d, p, warehouse)
                current_total == TotalStockQuantity(d1, p)
                new_avg == WeightedAverage(product.avg_cost, current_total, cost, qty)
                d2 == [d1 EXCEPT !.avg_cost[p] = new_avg]
                d3 == SaveStock(d2, p, warehouse, d2.stock[<<p, warehouse>>].quantity + qty)
            IN  Return(CreateMovement(d3,
                    Movement("ADJUSTMENT", p, sides.from_warehouse, sides.to_warehouse,
                             Abs(qty), cost, 0, 0)))
        ELSE
            LET d1 == GetStockForUpdate(d, p, warehouse)
                cur == d1.stock[<<p, warehouse>>].quantity
            IN  IF WouldGoNegative(allow_negative, cur + qty) THEN Raise(d1, "NegativeStock")
                ELSE Return(CreateMovement(SaveStock(d1, p, warehouse, cur + qty),
                        Movement("ADJUSTMENT", p, sides.from_warehouse, sides.to_warehouse,
                                 Abs(qty), product.avg_cost, 0, 0)))

-----------------------------------------------------------------------------
(* Ledger calls.  Each is one transaction: the body runs on the database   *)
(* as read, and what it leaves is committed or rolled back as a whole.     *)

Call(op, p, w, to, q, cost, allow, res) ==
    [op |-> op, product |-> p, warehouse |-> w, to |-> to, quantity |-> q,
     unit_cost |-> cost, allow_negative |-> allow, res |-> res]

NoCall == Call("none", NoProduct, NoWarehouse, NoWarehouse, 0, None, FALSE, "ok")

Finish(out, call) ==
    /\ Commit(Atomic(DB, out))
    /\ last' = call
    /\ UNCHANGED <<syncVars, tokenVars, passVars, sideVars>>

\* a caller issues its next call once the previous one has returned or its
\* exception has been handled
CanCall == last.res = "ok" /\ Len(movements) < MaxMoves

Entry(p, w, a) ==
    /\ CanCall
    /\ LET out == register_entry(DB, LoadProduct(DB, p), w, a[1], a[2], a[3])
       IN  Finish(out, Call("entry", p, w, NoWarehouse, a[1], Some(a[2]), FALSE, out.res))

Exit(p, w, a) ==
    /\ CanCall
    /\ LET out == register_exit(DB, LoadProduct(DB, p), w, a[1], a[2], None, 0)
       IN  Finish(out, Call("exit", p, w, NoWarehouse, a[1], None, a[2], out.res))

Transfer(p, from, to, a) ==
    /\ CanCall
    /\ LET out == register_transfer(DB, LoadProduct(DB, p), from, to, a[1], a[2])
       IN  Finish(out, Call("transfer", p, from, to, a[1], None, a[2], out.res))

Adjustment(p, w, a) ==
    /\ CanCall
    /\ LET out == register_adjustment(DB, LoadProduct(DB, p), w, a[1], a[2], a[3])
       IN  Finish(out, Call("adjustment", p, w, NoWarehouse, a[1], a[2], a[3], out.res))

\* except services.NegativeStockError / InvalidMovementError in the caller
HandleStockError ==
    /\ last.res # "ok"
    /\ last' = NoCall
    /\ UNCHANGED <<ledgerVars, syncVars, tokenVars, passVars, sideVars>>

-----------------------------------------------------------------------------
(* Ledger calls of concurrent requests.  A request loads the Product, then  *)
(* calls the operation; the transaction locks the Stock row it touches      *)
(* (select_for_update), and for an Entry or a positive Adjustment the       *)
(* product's rows for the total, and holds the locks until it commits.      *)

LedgerWriters == {"w1", "w2"}

WriterCall(op, w, to, q, cost, vat, allow) ==
    [op |-> op, product |-> "p1", warehouse |-> w, to |-> to, quantity |-> q,
     unit_cost |-> cost, vat_percent |-> vat, allow_negative |-> allow]

\* the calls the requests make, all on product p1
WriterCalls ==
    {WriterCall("entry", "COMUN", NoWarehouse, 1000, Some(5000), None, FALSE),
     WriterCall("exit", "COMUN", NoWarehouse, 1000, None, None, FALSE),
     WriterCall("exit", "COMUN", NoWarehouse, 2000, None, None, TRUE),
     WriterCall("transfer", "COMUN", "MERCADOLIBRE", 1000, None, None, FALSE),
     WriterCall("adjustment", "COMUN", NoWarehouse, 1000, Some(5010), None, FALSE),
     WriterCall("adjustment", "MERCADOLIBRE", NoWarehouse, 2000, None, None, FALSE),
     WriterCall("adjustment", "COMUN", NoWarehouse, -1000, None, None, FALSE),
     WriterCall("adjustment", "COMUN", NoWarehouse, 0, None, None, FALSE)}

\* seen: the movements committed when the product was loaded; read: the
\* quantity of the locked row; behind: the row was locked by another
\* transaction when the request came in; res: how the last call ended
WriterIdle ==
    [pc |-> "idle",
     call |-> WriterCall("none", NoWarehouse, NoWarehouse, 0, None, None, FALSE),
     product |-> [id |-> NoProduct, avg_cost |-> 0],
     seen |-> 0, read |-> 0, behind |-> FALSE, res |-> "none"]

NoWriters == [w \in LedgerWriters |-> WriterIdle]

\* the body of the operation the call names
Body(d, product, c) ==
    CASE c.op = "entry" ->
            register_entry(d, product, c.warehouse, c.quantity, c.unit_cost[1],
                           c.vat_percent)
      [] c.op = "exit" ->
            register_exit(d, product, c.warehouse, c.quantity, c.allow_negative,
                          c.vat_percent, 0)
      [] c.op = "transfer" ->
            register_transfer(d, product, c.warehouse, c.to, c.quantity,
                              c.allow_negative)
      [] OTHER ->
            register_adjustment(d, product, c.warehouse, c.quantity, c.unit_cost,
                                c.allow_negative)

\* the operations that call _total_stock_quantity
NeedsTotal(c) ==
    c.op = "entry" \/ (c.op = "adjustment" /\ ToDecimal(c.quantity) > 0)

\* the Stock row a transaction has locked
Holds(w) ==
    IF writers[w].pc = "locked"
    THEN {<<writers[w].call.product, writers[w].call.warehouse>>} ELSE {}

\* select_for_update: the row is locked by no other transaction
RowFreeNoLock(w, k) == TRUE
RowFree(w, k) == \A v \in LedgerWriters \ {w} : k \notin Holds(v)

\* Stock.objects.select_for_update().filter(product=product): the rows of
\* the product that are committed
TotalFree(w, p) ==
    \A wh \in Warehouses : stock[<<p, wh>>].exists => RowFree(w, <<p, wh>>)

\* the request: the view loads the Product and calls the operation
Load(w, c) ==
    /\ writers[w].pc = "idle"
    /\ Len(movements) < MaxMoves
    /\ writers' = [writers EXCEPT ![w] =
          [WriterIdle EXCEPT
             !.pc = "loaded", !.call = c, !.product = LoadProduct(DB, c.product),
             !.seen = Len(movements),
             !.behind = ~RowFree(w, <<c.product, c.warehouse>>)]]
    /\ UNCHANGED <<ledgerVars, last, syncVars, tokenVars, passVars,
                   matching, paging, refreshers>>

\* the transaction begins: the checks of the arguments, then
\* _get_stock_for_update, which waits for the row's lock and reads the row
Lock(w) ==
    /\ writers[w].pc = "loaded"
    /\ LET c == writers[w].call
           k == <<c.product, c.warehouse>>
       IN  IF Body(DB, writers[w].product, c).res = "InvalidMovement"
           THEN writers' = [writers EXCEPT ![w].pc = "idle",
                                           ![w].res = "InvalidMovement"]
           ELSE /\ RowFree(w, k)
                /\ writers' = [writers EXCEPT
                      ![w].pc = "locked",
                      ![w].read = IF stock[k].exists THEN stock[k].quantity ELSE 0]
    /\ UNCHANGED <<ledgerVars, last, syncVars, tokenVars, passVars,
                   matching, paging, refreshers>>

\* the rest of the body, on the row as read under the lock and the rest of
\* the database as committed, then commit or rollback; the locks go
Apply(w) ==
    /\ writers[w].pc = "locked"
    /\ LET c == writers[w].call
           k == <<c.product, c.warehouse>>
           seen_db == [DB EXCEPT !.stock[k] =
                          [exists |-> TRUE, quantity |-> writers[w].read]]
           out == Body(seen_db, writers[w].product, c)
       IN  /\ NeedsTotal(c) => TotalFree(w, c.product)
           /\ Commit(Atomic(DB, out))
           /\ writers' = [writers EXCEPT ![w].pc = "idle", ![w].res = out.res]
    /\ UNCHANGED <<last, syncVars, tokenVars, passVars, matching, paging, refreshers>>

\* two transactions wait for each other's row: the database ends one of them
DeadlockAbort(w) ==
    /\ writers[w].pc = "locked"
    /\ NeedsTotal(writers[w].call)
    /\ ~TotalFree(w, writers[w].call.product)
    /\ \E v \in LedgerWriters \ {w} :
          /\ writers[v].pc = "locked"
          /\ NeedsTotal(writers[v].call)
          /\ ~TotalFree(v, writers[v].call.product)
    /\ writers' = [writers EXCEPT ![w].pc = "idle", ![w].res = "OperationalError"]
    /\ UNCHANGED <<ledgerVars, last, syncVars, tokenVars, passVars,
                   matching, paging, refreshers>>

-----------------------------------------------------------------------------
(* ProductMatcher.  A text is a sequence of characters. *)

\* what NFD decomposition, the removal of combining marks and lower() make
\* of a character ("e_acute" stands for U+00E9); a character that is not
\* alphanumeric becomes a space
LowerAlnum == {"a", "b", "c", "e", "1"}
Fold(ch) ==
    CASE ch \in LowerAlnum -> ch
      [] ch = "A" -> "a"
      [] ch = "B" -> "b"
      [] ch = "e_acute" -> "e"
      [] OTHER -> " "

\* str.split(): the maximal runs of characters that are not spaces
RECURSIVE SplitFrom(_, _, _)
SplitFrom(text, word, words) ==
    IF text = <<>> THEN (IF word = <<>> THEN words ELSE Append(words, word))
    ELSE IF Head(text) = " "
         THEN SplitFrom(Tail(text), <<>>,
                        IF word = <<>> THEN words ELSE Append(words, word))
         ELSE SplitFrom(Tail(text), Append(word, Head(text)), words)
Split_(text) == SplitFrom(text, <<>>, <<>>)

\* " ".join(words)
RECURSIVE Join(_)
Join(words) ==
    IF words = <<>> THEN <<>>
    ELSE IF Len(words) = 1 THEN words[1]
    ELSE words[1] \o <<" ">> \o Join(Tail(words))

Normalize(text) == Join(Split_([i \in 1..Len(text) |-> Fold(text[i])]))

Tokenize(text) == SelectSeq(Split_(Normalize(text)), LAMBDA tok : Len(tok) > 1)

\* the elements of a list, as a set
ToSet(seq) == {seq[i] : i \in 1..Len(seq)}

\* name_norm in title_norm
IsSubstring(part, text) ==
    \E i \in 0..(Len(text) - Len(part)) : SubSeq(text, i + 1, i + Len(part)) = part

\* the products the matcher is given, their names and groups
ProductOrder == <<"p1", "p2">>
ProductName(p) == IF p = "p1" THEN <<"a", "b", " ", "c", "a">> ELSE <<"c", "a", "b">>
ProductGroup(p) == IF p = "p1" THEN <<>> ELSE <<"b", "e">>

BuildProductIndex(products) ==
    [i \in 1..Len(products) |->
        [product |-> products[i],
         name_tokens |-> Tokenize(ProductName(products[i])),
         group_tokens |-> Tokenize(ProductGroup(products[i])),
         name_norm |-> Normalize(ProductName(products[i]))]]

\* a score is the fraction num / den; score = overlap / len(name_tokens),
\* plus 0.25 when a group token is in the title
Score(title_tokens, e) ==
    LET overlap == Cardinality(title_tokens \cap ToSet(e.name_tokens))
        n == IF Len(e.name_tokens) > 1 THEN Len(e.name_tokens) ELSE 1
        bonus == IF e.group_tokens # <<>>
                    /\ title_tokens \cap ToSet(e.group_tokens) # {} THEN 1 ELSE 0
    IN  [num |-> 4 * overlap + n * bonus, den |-> 4 * n]
Greater(x, y) == x.num * y.den > y.num * x.den
AtLeastQuarter(x) == 4 * x.num >= x.den
AtLeastThreshold(x) == 10 * x.num >= 3 * x.den

\* the loop of _match_product from entry i on
RECURSIVE MatchFrom(_, _, _, _, _, _)
MatchFrom(title_norm, title_tokens, index, i, best_score, best) ==
    IF i > Len(index)
    THEN (IF AtLeastThreshold(best_score) THEN best ELSE NoProduct)
    ELSE LET e == index[i]
         IN  IF e.name_tokens = <<>>
             THEN MatchFrom(title_norm, title_tokens, index, i + 1, best_score, best)
             ELSE IF e.group_tokens # <<>> /\ title_tokens \cap ToSet(e.group_tokens) = {}
             THEN MatchFrom(title_norm, title_tokens, index, i + 1, best_score, best)
             ELSE IF e.name_norm # <<>> /\ IsSubstring(e.name_norm, title_norm)
             THEN e.product
             ELSE LET score == Score(title_tokens, e)
                  IN  IF Greater(score, best_score)
                      THEN MatchFrom(title_norm, title_tokens, index, i + 1,
                                     score, e.product)
                      ELSE MatchFrom(title_norm, title_tokens, index, i + 1,
                                     best_score, best)

\* _match_product: the product matched, or NoProduct
MatchProduct(title, index) ==
    MatchFrom(Normalize(title), ToSet(Tokenize(title)), index, 1,
              [num |-> 0, den |-> 1], NoProduct)

\* item.get("title") of the remote items
Title(i) ==
    IF i = "i1" THEN <<"A", "b", "-", "c", "a", " ", "1">> ELSE <<"b", " ", "e">>

\* _build_product_index over Product rows given as records: the matcher's
\* candidates when the products table holds these names and groups
BuildProductIndexOf(rows) ==
    [i \in 1..Len(rows) |->
        [product |-> rows[i].id,
         name_tokens |-> Tokenize(rows[i].name),
         group_tokens |-> Tokenize(rows[i].group),
         name_norm |-> Normalize(rows[i].name)]]

\* the matcher is given at most MaxCandidates products
MaxCandidates == 2
CandidateIds == <<"p1", "p2", "p3">>

\* titles, product names and product groups the matcher is run on
Titles ==
    {<<"A", "b", "-", "c", "a", " ", "1">>, <<"b", " ", "e">>,
     <<"c", "a", "b", " ", "b", "e">>, <<"a", " ", "b", " ", "c">>,
     <<"a", "b", ",", "b", "e">>, <<"c", "A", "b">>}
Names ==
    {<<"a", "b", " ", "c", "a">>, <<"c", "a", "b">>, <<"a", " ", "b">>,
     <<"a", "b", " ", "c", "a", " ", "b", "e", " ", "c", "a", "b">>,
     <<"A", "b", " ", "a", "b">>}
Groups == {<<>>, <<"b", "e">>, <<"c", "a">>}

\* the lists of 1..MaxCandidates product rows, in input order
ProductRows ==
    UNION {[1..n -> Names \X Groups] : n \in 1..MaxCandidates}
RowsOf(f) ==
    [i \in DOMAIN f |-> [id |-> CandidateIds[i], name |-> f[i][1], group |-> f[i][2]]]

\* state: called (arguments bound) or returned
NoMatching == [state |-> "none", title |-> <<>>, products |-> <<>>, result |-> NoProduct]

\* product, _ = _match_product(title, _build_product_index(products))
Match ==
    /\ matching.state = "called"
    /\ matching' = [matching EXCEPT
                      !.state = "returned",
                      !.result = MatchProduct(matching.title,
                                              BuildProductIndexOf(matching.products))]
    /\ UNCHANGED <<ledgerVars, last, syncVars, tokenVars, passVars,
                   paging, writers, refreshers>>

-----------------------------------------------------------------------------
(* The connection and its token *)

NoConnection == [access_token |-> "", refresh_token |-> "", expires_at |-> None]

\* refreshed.get(key, default)
Get(value, default) == IF value # None THEN value[1] ELSE default

\* connection.expires_at and timezone.now() >= connection.expires_at - 2 minutes
RefreshDueAtExpiry(conn, t) == conn.expires_at # None /\ t >= conn.expires_at[1]
RefreshDue(conn, t) == conn.expires_at # None /\ t >= conn.expires_at[1] - 2

\* get_valid_access_token: the connection as saved, the token returned and
\* whether a refresh request was sent; refreshed is the endpoint's answer
GetValidAccessToken(conn, t, refreshed) ==
    IF conn.access_token = ""
    THEN [connection |-> conn, token |-> "", sent |-> FALSE]
    ELSE IF RefreshDue(conn, t)
    THEN LET saved ==
                 [access_token |-> Get(refreshed.access_token, conn.access_token),
                  refresh_token |-> Get(refreshed.refresh_token, conn.refresh_token),
                  expires_at |-> IF refreshed.expires_in # 0
                                 THEN Some(t + refreshed.expires_in)
                                 ELSE conn.expires_at]
         IN  [connection |-> saved, token |-> saved.access_token, sent |-> TRUE]
    ELSE [connection |-> conn, token |-> conn.access_token, sent |-> FALSE]

\* how the refresh of a call went: not sent, answered with a token pair,
\* or answered with an error
RefreshOutcome(got, refreshed) ==
    IF ~got.sent THEN "none" ELSE IF refreshed.error = "" THEN "ok" ELSE "failed"

\* time passes
Tick ==
    /\ now < MaxNow
    /\ now' = now + 1
    /\ UNCHANGED <<ledgerVars, last, syncVars, connection, passVars, sideVars>>

\* views.py, mercadolibre_callback: the first connection of the account
Connect(token_data) ==
    /\ connection.access_token = ""
    /\ token_data.error = ""
    /\ token_data.access_token # None
    /\ connection' =
          [access_token |-> token_data.access_token[1],
           refresh_token |-> Get(token_data.refresh_token, ""),
           expires_at |-> IF token_data.expires_in # 0
                          THEN Some(now + token_data.expires_in) ELSE None]
    /\ UNCHANGED <<ledgerVars, last, syncVars, now, passVars, sideVars>>

-----------------------------------------------------------------------------
(* get_valid_access_token called by concurrent passes, one access to the    *)
(* database or to the token endpoint per step.  Each pass holds the         *)
(* connection it loaded; nothing locks the row.                             *)

Refreshers == {"r1", "r2"}

\* get_valid_access_token is called at most MaxTokenCalls times
MaxTokenCalls == 3

\* the n-th token pair of the account; the code exchange gave the first
AccessToken(n) == "tok" \o ToString(n)
RefreshToken(n) == "ref" \o ToString(n)

\* what the token endpoint answers to a refresh request when it has issued
\* n pairs: the next pair, or the error payload of a non-2xx answer
TokenAnswer(n, error) ==
    IF error = ""
    THEN [error |-> "", access_token |-> Some(AccessToken(n + 1)),
          refresh_token |-> Some(RefreshToken(n + 1)), expires_in |-> 3]
    ELSE [error |-> error, access_token |-> None, refresh_token |-> None,
          expires_in |-> 0]
TokenErrors == {"", "http_error"}

NoAnswer == [error |-> "", access_token |-> None, refresh_token |-> None,
             expires_in |-> 0]

\* conn: the connection instance the pass holds; due: the test of line 119;
\* sent: the refresh token it sent; refreshed: the answer; token: what the
\* call returned; during: the call ran while another call was running
RefresherIdle ==
    [pc |-> "idle", conn |-> NoConnection, due |-> FALSE, sent |-> None,
     refreshed |-> NoAnswer, token |-> "", during |-> FALSE]

\* issued: the pairs the endpoint has issued; latest: the pair of its latest
\* successful refresh; calls: the calls begun
NoRefreshers ==
    [procs |-> [r \in Refreshers |-> RefresherIdle], issued |-> 1, calls |-> 0,
     latest |-> None]

Running(r) == refreshers.procs[r].pc # "idle"

\* the pass loads the connection row and calls get_valid_access_token
TokenLoad(r) ==
    /\ ~Running(r)
    /\ refreshers.calls < MaxTokenCalls
    /\ LET others == \E v \in Refreshers \ {r} : Running(v)
       IN  refreshers' = [refreshers EXCEPT
             !.calls = @ + 1,
             !.procs = [v \in Refreshers |->
                 IF v = r
                 THEN [RefresherIdle EXCEPT !.pc = "loaded", !.conn = connection,
                                            !.during = others]
                 ELSE IF Running(v) THEN [@[v] EXCEPT !.during = TRUE]
                 ELSE @[v]]]
    /\ UNCHANGED <<ledgerVars, last, syncVars, tokenVars, passVars,
                   matching, paging, writers>>

\* lines 117-119 and 127: no token, or the test of the expiry against now
TokenCheck(r) ==
    /\ refreshers.procs[r].pc = "loaded"
    /\ LET conn == refreshers.procs[r].conn
       IN  refreshers' = [refreshers EXCEPT !.procs[r] =
             IF conn.access_token = "" THEN [@ EXCEPT !.pc = "idle", !.token = ""]
             ELSE IF RefreshDue(conn, now) THEN [@ EXCEPT !.pc = "due", !.due = TRUE]
             ELSE [@ EXCEPT !.pc = "idle", !.token = conn.access_token]]
    /\ UNCHANGED <<ledgerVars, last, syncVars, tokenVars, passVars,
                   matching, paging, writers>>

\* line 120: refresh_access_token(connection.refresh_token) and its answer
TokenRequest(r, error) ==
    /\ refreshers.procs[r].pc = "due"
    /\ LET answer == TokenAnswer(refreshers.issued, error)
       IN  refreshers' = [refreshers EXCEPT
             !.procs[r].pc = "answered",
             !.procs[r].sent = Some(refreshers.procs[r].conn.refresh_token),
             !.procs[r].refreshed = answer,
             !.issued = IF answer.error = "" THEN @ + 1 ELSE @,
             !.latest = IF answer.error = ""
                        THEN Some(<<answer.access_token[1], answer.refresh_token[1]>>)
                        ELSE @]
    /\ UNCHANGED <<ledgerVars, last, syncVars, tokenVars, passVars,
                   matching, paging, writers>>

\* lines 121-127: the fields are set from the answer, saved and the access
\* token returned
TokenSave(r) ==
    /\ refreshers.procs[r].pc = "answered"
    /\ LET conn == refreshers.procs[r].conn
           refreshed == refreshers.procs[r].refreshed
           saved == [access_token |-> Get(refreshed.access_token, conn.access_token),
                     refresh_token |-> Get(refreshed.refresh_token, conn.refresh_token),
                     expires_at |-> IF refreshed.expires_in # 0
                                    THEN Some(now + refreshed.expires_in)
                                    ELSE conn.expires_at]
       IN  /\ connection' = saved
           /\ refreshers' = [refreshers EXCEPT
                 !.procs[r].pc = "idle",
                 !.procs[r].conn = saved,
                 !.procs[r].token = saved.access_token]
    /\ UNCHANGED <<ledgerVars, last, syncVars, now, passVars,
                   matching, paging, writers>>

-----------------------------------------------------------------------------
(* get_item_ids: one request of the loop per step.  The remote catalog is   *)
(* the ids 1..remote in remote order; it answers a request with the ids     *)
(* that follow the offset, at most limit of them.                           *)

\* the remote catalog holds at most MaxRemoteItems items
MaxRemoteItems == 101

\* limit = 50
PageLimit == 50

\* max_items: None, or the cap the caller sets
ItemCaps == {None} \cup {Some(c) : c \in {0, 1, 49, 50, 51, 75, 100, 101, 120}}

\* data.get("results") or []
SearchResults(remote, offset, limit) ==
    [i \in 1..(IF remote - offset < 0 THEN 0
               ELSE IF remote - offset < limit THEN remote - offset ELSE limit)
        |-> offset + i]

\* len(results) < limit
LastPageAtMost(results, limit) == Len(results) <= limit
LastPage(results, limit) == Len(results) < limit

\* state: called or returned; offsets: the offsets requested so far;
\* gathered: len(item_ids) before the cut of line 145
NoPaging ==
    [state |-> "none", remote |-> 0, max_items |-> None, offset |-> 0,
     item_ids |-> <<>>, truncated |-> FALSE, offsets |-> <<>>, gathered |-> 0]

\* lines 135-151: one pass through the loop body
GetPage ==
    /\ paging.state = "called"
    /\ LET results == SearchResults(paging.remote, paging.offset, PageLimit)
           item_ids == paging.item_ids \o results
           asked == [paging EXCEPT !.offsets = Append(@, paging.offset),
                                   !.gathered = Len(item_ids)]
       IN  paging' =
             IF paging.max_items # None /\ Len(item_ids) >= paging.max_items[1]
             THEN [asked EXCEPT !.item_ids = SubSeq(item_ids, 1, paging.max_items[1]),
                                !.truncated = TRUE, !.state = "returned"]
             ELSE IF LastPage(results, PageLimit)
             THEN [asked EXCEPT !.item_ids = item_ids, !.state = "returned"]
             ELSE [asked EXCEPT !.item_ids = item_ids, !.offset = @ + PageLimit]
    /\ UNCHANGED <<ledgerVars, last, syncVars, tokenVars, passVars,
                   matching, writers, refreshers>>

-----------------------------------------------------------------------------
(* sync_order, one database access per step.  The network calls (order,    *)
(* item detail, payments) touch no local state and belong to the step of   *)
(* the database access that follows them.                                  *)

Reference(order_id) == <<"ML ORDER", order_id>>

SaleExists(order_id) ==
    \E i \in DOMAIN sales : sales[i].reference = Reference(order_id)

\* upserted: the listings this call has created or updated so far
Idle == [order_id |-> "", token |-> "", refresh |-> "none", idx |-> 0,
         matched_items |-> <<>>, sale |-> 0, upserted |-> {}]

\* return (ok, reason): back to the caller
ReturnFrom(c, l, reason) ==
    /\ pc' = [pc EXCEPT ![c] = "idle"]
    /\ local' = [local EXCEPT ![c] = Idle]
    /\ history' = Append(history,
                         [caller |-> c, order_id |-> l.order_id, token |-> l.token,
                          refresh |-> l.refresh, upserted |-> l.upserted,
                          ret |-> reason])

Started == Len(history) + Cardinality({c \in Callers : pc[c] # "idle"})

\* lines 407-422: token, get_order, status, the reference lookup; refreshed
\* is the token endpoint's answer and status the order's, or HTTPError
SyncOrderCall(c, order_id, refreshed, status) ==
    /\ pc[c] = "idle"
    /\ Started < MaxSyncCalls
    /\ UNCHANGED <<ledgerVars, last, sales, sale_items, ml_items, now, cat, sideVars>>
    /\ LET got == GetValidAccessToken(connection, now, refreshed)
           l == [Idle EXCEPT !.order_id = order_id, !.token = got.token,
                             !.refresh = RefreshOutcome(got, refreshed), !.idx = 1]
       IN  /\ connection' = got.connection
           /\ IF got.token = "" THEN ReturnFrom(c, l, "missing_access_token")
              ELSE IF status = HTTPError THEN ReturnFrom(c, l, HTTPError)
              ELSE IF status \in {"cancelled", "expired"}
                   THEN ReturnFrom(c, l, "ignored_status")
              ELSE IF SaleExists(order_id) THEN ReturnFrom(c, l, "already_processed")
              ELSE /\ pc' = [pc EXCEPT ![c] = "resolve"]
                   /\ local' = [local EXCEPT ![c] = l]
                   /\ UNCHANGED history

\* sync_order called from a request of its own
SyncOrderBegin(c, order_id, refreshed, status) ==
    /\ SyncOrderCall(c, order_id, refreshed, status)
    /\ UNCHANGED batch

\* lines 425-458: one order line; after the last one, the no_matches test
ResolveLine(c) ==
    /\ pc[c] = "resolve"
    /\ UNCHANGED <<ledgerVars, last, sales, sale_items, tokenVars, passVars, sideVars>>
    /\ LET l == local[c]
           lines == OrderItems(l.order_id)
       IN  IF l.idx > Len(lines)
           THEN /\ UNCHANGED ml_items
                /\ IF l.matched_items = <<>>
                   THEN ReturnFrom(c, l, "no_matches")
                   ELSE /\ pc' = [pc EXCEPT ![c] = "create_sale"]
                        /\ UNCHANGED <<local, history>>
           ELSE
           LET line == lines[l.idx]
               item_id == line.item_id
               mapped == item_id # "" /\ ml_items[item_id].exists
                         /\ ml_items[item_id].product # NoProduct
               product == IF mapped THEN ml_items[item_id].product ELSE NoProduct
           IN  /\ UNCHANGED <<pc, history>>
               /\ IF line.quantity <= 0
                  THEN /\ UNCHANGED ml_items
                       /\ local' = [local EXCEPT ![c].idx = @ + 1]
                  ELSE /\ ml_items' =
                            IF product = NoProduct /\ item_id # ""
                            THEN [ml_items EXCEPT ![item_id].exists = TRUE]
                            ELSE ml_items
                       /\ local' = [local EXCEPT
                            ![c].idx = @ + 1,
                            ![c].upserted =
                                IF product = NoProduct /\ item_id # ""
                                THEN @ \cup {item_id} ELSE @,
                            ![c].matched_items =
                                IF product = NoProduct THEN @
                                ELSE Append(@, [product |-> LoadProduct(DB, product),
                                                quantity |-> line.quantity,
                                                vat_percent |-> vat_percent[product]])]

\* lines 460-485: payments, Sale.objects.create
CreateSale(c) ==
    /\ pc[c] = "create_sale"
    /\ sales' = Append(sales, [reference |-> Reference(local[c].order_id),
                               ml_order_id |-> local[c].order_id])
    /\ local' = [local EXCEPT ![c].sale = Len(sales) + 1, ![c].idx = 1]
    /\ pc' = [pc EXCEPT ![c] = "sale_item"]
    /\ UNCHANGED <<ledgerVars, last, sale_items, ml_items, history, tokenVars, passVars, sideVars>>

\* lines 486-497: SaleItem.objects.create for the current line
CreateSaleItem(c) ==
    /\ pc[c] = "sale_item"
    /\ LET m == local[c].matched_items[local[c].idx]
       IN  sale_items' = Append(sale_items,
                [sale |-> local[c].sale, product |-> m.product.id,
                 quantity |-> ToDecimal(m.quantity)])
    /\ pc' = [pc EXCEPT ![c] = "exit"]
    /\ UNCHANGED <<ledgerVars, last, sales, ml_items, local, history, tokenVars, passVars, sideVars>>

\* lines 498-510: register_exit for the current line, then the next line or
\* return (True, "ok"); an exception of the ledger leaves sync_order
ExitLine(c) ==
    /\ pc[c] = "exit"
    /\ UNCHANGED <<last, sales, sale_items, ml_items, tokenVars, passVars, sideVars>>
    /\ LET l == local[c]
           m == l.matched_items[l.idx]
           out == register_exit(DB, m.product, "MERCADOLIBRE", m.quantity, TRUE,
                                Some(m.vat_percent * 10), l.sale)
       IN  /\ Commit(Atomic(DB, out))
           /\ IF out.res # "ok" THEN ReturnFrom(c, l, out.res)
              ELSE IF l.idx = Len(l.matched_items)
                   THEN ReturnFrom(c, l, "ok")
              ELSE /\ local' = [local EXCEPT ![c].idx = @ + 1]
                   /\ pc' = [pc EXCEPT ![c] = "sale_item"]
                   /\ UNCHANGED history

\* views.py, action "sync_item": the listing is stored, its product link kept
SyncItem(i) ==
    /\ ~ml_items[i].exists
    /\ ml_items' = [ml_items EXCEPT ![i].exists = TRUE]
    /\ UNCHANGED <<ledgerVars, last, sales, sale_items, pc, local, history,
                   tokenVars, passVars, sideVars>>

\* views.py, action "link_item", on a listing that has no product yet
LinkItem(i, p) ==
    /\ ml_items[i].exists
    /\ ml_items[i].product = NoProduct
    /\ ml_items' = [ml_items EXCEPT ![i].product = p]
    /\ UNCHANGED <<ledgerVars, last, sales, sale_items, pc, local, history,
                   tokenVars, passVars, sideVars>>

-----------------------------------------------------------------------------

(* sync_recent_orders: the loop over the order ids the remote lists *)

\* the return values of sync_order that are reasons, and the exceptions that
\* leave it
Reasons == {"missing_access_token", "ignored_status", "already_processed", "no_matches"}
Exceptions == {HTTPError, "InvalidMovement", "NegativeStock"}

\* get_recent_order_ids: what the remote lists
RecentOrderIds == {<<"o1", "o2">>, <<"o2", "o1">>}

\* state: idle, running (between two calls), calling (in sync_order), done
\* (returned its counters) or aborted (left by an exception)
BatchIdle == [state |-> "idle", order_ids |-> <<>>, pos |-> 0, created |-> 0,
              reasons |-> [r \in Reasons |-> 0]]

\* lines 267-272
BatchBegin(refreshed, order_ids) ==
    /\ batch.state = "idle"
    /\ pc["batch"] = "idle"
    /\ LET got == GetValidAccessToken(connection, now, refreshed)
       IN  /\ connection' = got.connection
           /\ batch' =
                 IF got.token = ""
                 THEN [BatchIdle EXCEPT !.state = "done",
                                        !.reasons["missing_access_token"] = 1]
                 ELSE [BatchIdle EXCEPT !.state = "running", !.order_ids = order_ids,
                                        !.pos = 1]
    /\ UNCHANGED <<ledgerVars, last, syncVars, now, cat, sideVars>>

\* line 274: sync_order(connection, order_id, user) for the next order id
BatchCall(refreshed, status) ==
    /\ batch.state = "running"
    /\ SyncOrderCall("batch", batch.order_ids[batch.pos], refreshed, status)
    /\ batch' = [batch EXCEPT !.state = "calling"]

\* lines 275-279: the call has returned (ok, reason), or an exception has
\* left it, which nothing in sync_recent_orders catches
BatchCollect ==
    /\ batch.state = "calling"
    /\ pc["batch"] = "idle"
    /\ LET k == CHOOSE k \in DOMAIN history :
                    /\ history[k].caller = "batch"
                    /\ \A j \in DOMAIN history : j > k => history[j].caller # "batch"
           ret == history[k].ret
           counted ==
               IF ret = "ok" THEN [batch EXCEPT !.created = @ + 1, !.pos = @ + 1]
               ELSE [batch EXCEPT !.reasons[ret] = @ + 1, !.pos = @ + 1]
       IN  batch' =
             IF ret \in Exceptions THEN [batch EXCEPT !.state = "aborted"]
             ELSE [counted EXCEPT !.state = IF counted.pos > Len(batch.order_ids)
                                           THEN "done" ELSE "running"]
    /\ UNCHANGED <<ledgerVars, last, syncVars, tokenVars, cat, sideVars>>

(* sync_items_and_stock: the loop over the item ids the remote lists *)

\* get_item_ids: what the remote lists
CatalogItemIds == {<<"i1", "i2">>, <<"i2", "i1">>}
\* item.get("available_quantity"), in units
AvailableQuantities == {0, 1, 2}

\* what the remote has answered so far: the item ids it listed last and the
\* available_quantity it gave last for each item
NoRemote == [ids |-> <<>>, available |-> [i \in Items |-> None]]

\* state: idle, running (in the loop), closing (after the loop), done;
\* available is the last available_quantity read, runs the calls begun
CatIdle == [state |-> "idle", runs |-> 0, item_ids |-> <<>>, pos |-> 0,
            available |-> 0, total |-> 0, matched |-> 0, unmatched |-> 0,
            updated_stock |-> 0, remote |-> NoRemote]

\* lines 332-346
CatalogBegin(refreshed, item_ids) ==
    /\ cat.state \in {"idle", "done"}
    /\ cat.runs < MaxCatalogRuns
    /\ LET got == GetValidAccessToken(connection, now, refreshed)
       IN  /\ connection' = got.connection
           /\ cat' =
                 IF got.token = ""
                 THEN [CatIdle EXCEPT !.state = "done", !.runs = cat.runs + 1,
                                      !.remote = cat.remote]
                 ELSE [CatIdle EXCEPT !.state = "running", !.runs = cat.runs + 1,
                                      !.item_ids = item_ids, !.pos = 1,
                                      !.remote = [cat.remote EXCEPT !.ids = item_ids]]
    /\ UNCHANGED <<ledgerVars, last, syncVars, now, batch, sideVars>>

\* diff = desired_qty - current_qty
StockDiffReversed(desired_qty, current_qty) == current_qty - desired_qty
StockDiff(desired_qty, current_qty) == desired_qty - current_qty

\* lines 348-387: one item; available is the remote's available_quantity
CatalogItem(available) ==
    /\ cat.state = "running"
    /\ LET item_id == cat.item_ids[cat.pos]
           existing == ml_items[item_id]
           product == IF existing.exists THEN existing.product ELSE NoProduct
           current_qty == IF stock[<<product, "MERCADOLIBRE">>].exists
                          THEN stock[<<product, "MERCADOLIBRE">>].quantity ELSE 0
           diff == StockDiff(available * 100, current_qty)
           out == IF product # NoProduct /\ diff # 0
                  THEN register_adjustment(DB, LoadProduct(DB, product), "MERCADOLIBRE",
                                           diff * 10, None, TRUE)
                  ELSE Return(DB)
           next == cat.pos + 1
       IN  /\ ml_items' = [ml_items EXCEPT ![item_id] =
                                [exists |-> TRUE, product |-> product]]
           /\ Commit(Atomic(DB, out))
           /\ cat' =
                 IF out.res # "ok" THEN [cat EXCEPT !.state = "aborted"]
                 ELSE [cat EXCEPT
                         !.available = available,
                         !.remote.available[item_id] = Some(available),
                         !.total = @ + 1,
                         !.matched = IF product # NoProduct THEN @ + 1 ELSE @,
                         !.unmatched = IF product = NoProduct THEN @ + 1 ELSE @,
                         !.updated_stock =
                             IF product # NoProduct /\ diff # 0 THEN @ + 1 ELSE @,
                         !.pos = next,
                         !.state = IF next > Len(cat.item_ids) THEN "closing"
                                   ELSE "running"]
    /\ UNCHANGED <<last, sales, sale_items, pc, local, history, tokenVars, batch, sideVars>>

\* lines 389-403: the metrics, and the SyncResult returned
CatalogEnd ==
    /\ cat.state = "closing"
    /\ cat' = [cat EXCEPT !.state = "done"]
    /\ UNCHANGED <<ledgerVars, last, syncVars, tokenVars, batch, sideVars>>

\* the tables and the calls of the ledger and of the reconciliation
InitStore ==
    /\ stock = [k \in Products \X Warehouses |-> NoRow]
    /\ avg_cost = [p \in Products |-> 0]
    /\ vat_percent = [p \in Products |-> 0]
    /\ movements = <<>>
    /\ last = NoCall
    /\ sales = <<>>
    /\ sale_items = <<>>
    /\ ml_items = [i \in Items |-> [exists |-> FALSE, product |-> NoProduct]]
    /\ pc = [c \in Callers |-> "idle"]
    /\ local = [c \in Callers |-> Idle]
    /\ history = <<>>
    /\ connection = NoConnection
    /\ now = 0
    /\ batch = BatchIdle
    /\ cat = CatIdle

Init ==
    /\ InitStore
    /\ matching = NoMatching
    /\ paging = NoPaging
    /\ writers = NoWriters
    /\ refreshers = NoRefreshers

\* the ledger under one caller at a time
Next ==
    \/ \E p \in Products, w \in Warehouses : \E a \in EntryArgs(p) : Entry(p, w, a)
    \/ \E p \in Products, w \in Warehouses : \E a \in ExitArgs(p) : Exit(p, w, a)
    \/ \E p \in Products, from \in Warehouses, to \in Warehouses :
          \E a \in TransferArgs(p) : Transfer(p, from, to, a)
    \/ \E p \in Products, w \in Warehouses : \E a \in AdjustmentArgs(p) :
          Adjustment(p, w, a)
    \/ HandleStockError

Spec == Init /\ [][Next]_vars

SyncStep(c) ==
    \/ ResolveLine(c)
    \/ CreateSale(c)
    \/ CreateSaleItem(c)
    \/ ExitLine(c)

Catalog ==
    \/ \E i \in Items : SyncItem(i)
    \/ \E i \in Items, p \in Products : LinkItem(i, p)

\* sync_order called by the webhook and by the batch at the same time
NextSync ==
    \/ \E r \in ExchangeResponses : Connect(r)
    \/ \E c \in Callers, o \in Orders, r \in RefreshResponses,
          s \in Statuses \cup {HTTPError} : SyncOrderBegin(c, o, r, s)
    \/ \E c \in Callers : SyncStep(c)
    \/ Catalog

SpecSync == Init /\ [][NextSync]_vars

\* sync_order called again only after the previous call has returned
NextSyncSeq ==
    \/ \E r \in ExchangeResponses : Connect(r)
    \/ \E c \in Callers, o \in Orders, r \in RefreshResponses,
          s \in Statuses \cup {HTTPError} :
          /\ \A d \in Callers : pc[d] = "idle"
          /\ SyncOrderBegin(c, o, r, s)
    \/ \E c \in Callers : SyncStep(c)
    \/ Catalog

SpecSyncSeq == Init /\ [][NextSyncSeq]_vars

\* sync_order for order o2 in the webhook's request while other requests
\* post Entries (those without VAT) and Adjustments (those with a unit cost)
\* of product p1 to the marketplace warehouse
NextLedgerSync ==
    \/ \E r \in ExchangeResponses : Connect(r)
    \/ \E r \in RefreshResponses : SyncOrderBegin("webhook", "o2", r, "paid")
    \/ SyncStep("webhook")
    \/ \E i \in Items : SyncItem(i) \/ LinkItem(i, "p1")
    \/ \E a \in {e \in EntryArgs("p1") : e[3] = None} : Entry("p1", "MERCADOLIBRE", a)
    \/ \E a \in {e \in AdjustmentArgs("p1") : e[2] # None} :
          Adjustment("p1", "MERCADOLIBRE", a)
    \/ HandleStockError

SpecLedgerSync == Init /\ [][NextLedgerSync]_vars

\* one sync_recent_orders call, the only caller of sync_order
NextBatch ==
    \/ \E r \in ExchangeResponses : Connect(r)
    \/ \E r \in RefreshResponses, ids \in RecentOrderIds : BatchBegin(r, ids)
    \/ \E r \in RefreshResponses, s \in Statuses \cup {HTTPError} : BatchCall(r, s)
    \/ SyncStep("batch")
    \/ BatchCollect
    \/ Catalog

SpecBatch == Init /\ [][NextBatch]_vars

\* sync_items_and_stock called from the dashboard, between the links the
\* user sets there and the Entries and Exits of product p2 that requests
\* post to the marketplace warehouse while no item is being processed
NextCatalog ==
    \/ \E r \in ExchangeResponses : Connect(r)
    \/ \E r \in RefreshResponses, ids \in CatalogItemIds : CatalogBegin(r, ids)
    \/ \E a \in AvailableQuantities : CatalogItem(a)
    \/ CatalogEnd
    \/ \E i \in Items, p \in Products : LinkItem(i, p)
    \/ \E a \in EntryArgs("p2") : Entry("p2", "MERCADOLIBRE", a)
    \/ \E a \in ExitArgs("p2") : Exit("p2", "MERCADOLIBRE", a)

SpecCatalog == Init /\ [][NextCatalog]_vars

\* sync_order called by the webhook while time passes and the stored token
\* comes within 2 minutes of its expiry
NextToken ==
    \/ \E r \in ExchangeResponses : Connect(r)
    \/ Tick
    \/ \E o \in Orders, r \in RefreshResponses, s \in Statuses \cup {HTTPError} :
          SyncOrderBegin("webhook", o, r, s)
    \/ SyncStep("webhook")
    \/ Catalog

SpecToken == Init /\ [][NextToken]_vars

\* _match_product called on a title and a list of products
InitMatch ==
    /\ InitStore
    /\ \E t \in Titles, f \in ProductRows :
          matching = [NoMatching EXCEPT !.state = "called", !.title = t,
                                        !.products = RowsOf(f)]
    /\ paging = NoPaging
    /\ writers = NoWriters
    /\ refreshers = NoRefreshers

NextMatch == Match

SpecMatch == InitMatch /\ [][NextMatch]_vars

\* two requests at a time call the ledger on product p1
NextWriters ==
    \/ \E w \in LedgerWriters, c \in WriterCalls : Load(w, c)
    \/ \E w \in LedgerWriters : Lock(w)
    \/ \E w \in LedgerWriters : Apply(w)
    \/ \E w \in LedgerWriters : DeadlockAbort(w)

SpecWriters == Init /\ [][NextWriters]_vars

\* get_valid_access_token called by two passes at a time while time passes
NextRefresh ==
    \/ \E r \in ExchangeResponses : Connect(r)
    \/ Tick
    \/ \E r \in Refreshers : TokenLoad(r)
    \/ \E r \in Refreshers : TokenCheck(r)
    \/ \E r \in Refreshers, e \in TokenErrors : TokenRequest(r, e)
    \/ \E r \in Refreshers : TokenSave(r)

SpecRefresh == Init /\ [][NextRefresh]_vars

\* get_item_ids called on a remote catalog with a cap or without
InitPaging ==
    /\ InitStore
    /\ matching = NoMatching
    /\ \E n \in 0..MaxRemoteItems, c \in ItemCaps :
          paging = [NoPaging EXCEPT !.state = "called", !.remote = n, !.max_items = c]
    /\ writers = NoWriters
    /\ refreshers = NoRefreshers

NextPaging == GetPage

\* the loop goes on as long as it has not left by a break
SpecPaging == InitPaging /\ [][NextPaging]_vars /\ WF_vars(NextPaging)

\* the ledger on product p1 when stock is sold below zero and then
\* corrected upwards, at a unit cost below the basis or at none
OversoldEntryArgs == {<<1000, 5000, None>>}
OversoldExitArgs == {<<2000, TRUE>>, <<1000, FALSE>>}
OversoldAdjustmentArgs ==
    {<<2000, Some(1000), FALSE>>, <<1000, None, FALSE>>, <<-1000, None, TRUE>>}

NextOversold ==
    \/ \E w \in Warehouses : \E a \in OversoldEntryArgs : Entry("p1", w, a)
    \/ \E w \in Warehouses : \E a \in OversoldExitArgs : Exit("p1", w, a)
    \/ \E w \in Warehouses : \E a \in OversoldAdjustmentArgs : Adjustment("p1", w, a)
    \/ HandleStockError

SpecOversold == Init /\ [][NextOversold]_vars

\* the user links the listings to products before the first run
LinkItemFirst(i, p) == cat.runs = 0 /\ LinkItem(i, p)

\* a run on a remote that lists the items it listed in the run before
CatalogBeginSame(refresh, item_ids) ==
    /\ cat.runs = 0 \/ item_ids = cat.remote.ids
    /\ CatalogBegin(refresh, item_ids)

\* an item for which the remote gives the quantity it gave in the run before
CatalogItemSame(available) ==
    /\ cat.state = "running"
    /\ cat.remote.available[cat.item_ids[cat.pos]] \in {None, Some(available)}
    /\ CatalogItem(available)

\* the user links the listings to products, then sync_items_and_stock runs
\* again and again on a remote catalog that does not change, and nothing
\* else calls the ledger
NextResync ==
    \/ \E r \in ExchangeResponses : Connect(r)
    \/ \E i \in Items : SyncItem(i)
    \/ \E i \in Items, p \in Products : LinkItemFirst(i, p)
    \/ \E r \in RefreshResponses, ids \in CatalogItemIds : CatalogBeginSame(r, ids)
    \/ \E a \in AvailableQuantities : CatalogItemSame(a)
    \/ CatalogEnd

SpecResync == Init /\ [][NextResync]_vars

\* the ledger when every caller passes allow_negative = False
Strict(args) == {a \in args : a[Len(a)] = FALSE}

NextStrict ==
    \/ \E p \in Products, w \in Warehouses : \E a \in EntryArgs(p) : Entry(p, w, a)
    \/ \E p \in Products, w \in Warehouses : \E a \in Strict(ExitArgs(p)) : Exit(p, w, a)
    \/ \E p \in Products, from \in Warehouses, to \in Warehouses :
          \E a \in Strict(TransferArgs(p)) : Transfer(p, from, to, a)
    \/ \E p \in Products, w \in Warehouses : \E a \in Strict(AdjustmentArgs(p)) :
          Adjustment(p, w, a)
    \/ HandleStockError

SpecStrict == Init /\ [][NextStrict]_vars

-----------------------------------------------------------------------------
(* Properties *)

\* the step is a ledger call of kind op (not the handling of its error)
IsCall(op) ==
    /\ last.res = "ok"
    /\ last'.op = op
    /\ (last' # last \/ movements' # movements)

IsLedgerCall == \E op \in {"entry", "exit", "transfer", "adjustment"} : IsCall(op)

\* quantity of the pair's StockRecord; a pair with no record counts as 0
QuantityOf(p, w) == IF stock[<<p, w>>].exists THEN stock[<<p, w>>].quantity ELSE 0

\* sum of the product's StockRecord quantities over all warehouses
ProductTotal(p) == SumOver([w \in Warehouses |-> QuantityOf(p, w)], Warehouses)

\* n / d rounded half-up to an integer, d # 0
RoundedQuotient(n, d) == IF d > 0 THEN HalfUpDiv(n, d) ELSE HalfUpDiv(-n, -d)

EntriesOnly(p, w) ==
    /\ movements # <<>>
    /\ \A i \in DOMAIN movements :
          /\ movements[i].movement_type = "ENTRY"
          /\ movements[i].product = p
          /\ movements[i].to_warehouse = w

\* C1: after any sequence of successful Entries on one (product, warehouse)
\* pair from no stock, the StockRecord holds the sum of the entered
\* quantities and the cost basis is gross / (1 + vat/100), rounded half-up to
\* 2 decimals, of the most recent Entry alone.
C1_EntrySumAndLastCost ==
    \A p \in Products, w \in Warehouses :
        EntriesOnly(p, w) =>
            LET n == Len(movements)
                recent == movements[n]
            IN  /\ stock[<<p, w>>].exists
                /\ stock[<<p, w>>].quantity =
                      SumSeq([i \in 1..n |-> movements[i].quantity])
                /\ avg_cost[p] =
                      RoundedQuotient(recent.unit_cost * 10000, 10000 + recent.vat_percent)

\* three Entries on (p1, COMUN), the last at another gross cost and with VAT
C1_Witness ==
    /\ EntriesOnly("p1", "COMUN")
    /\ Len(movements) = 3
    /\ movements[3].vat_percent > 0
    /\ movements[2].unit_cost # movements[3].unit_cost
    /\ movements[1].unit_cost # movements[2].unit_cost

C3_TransferSourceOnly ==
    [][(IsCall("transfer") /\ last'.res = "ok") =>
          LET p == last'.product
              from == last'.warehouse
              to == last'.to
              q == ToDecimal(last'.quantity)
          IN  /\ stock'[<<p, from>>] = [exists |-> TRUE, quantity |-> QuantityOf(p, from) - q]
              /\ stock'[<<p, to>>] = stock[<<p, to>>]
              /\ Len(movements') = Len(movements) + 1
              /\ SubSeq(movements', 1, Len(movements)) = movements
              /\ LET m == movements'[Len(movements')]
                 IN  /\ m.movement_type = "TRANSFER"
                     /\ m.product = p
                     /\ m.from_warehouse = from
                     /\ m.to_warehouse = to
                     /\ m.quantity = q]_vars

\* a Transfer succeeded towards a warehouse that still has no StockRecord
C3_Witness ==
    /\ last.op = "transfer" /\ last.res = "ok"
    /\ ~stock[<<last.product, last.to>>].exists
    /\ stock[<<last.product, last.warehouse>>].quantity >= 0

NetDelta(p, w) ==
    SumSeq([i \in 1..Len(movements) |->
              IF movements[i].product # p THEN 0
              ELSE (IF movements[i].to_warehouse = w THEN movements[i].quantity ELSE 0)
                   - (IF movements[i].from_warehouse = w THEN movements[i].quantity ELSE 0)])

\* the same, a Transfer counting against its source only
NetDeltaSourceOnlyTransfer(p, w) ==
    SumSeq([i \in 1..Len(movements) |->
              IF movements[i].product # p THEN 0
              ELSE (IF movements[i].to_warehouse = w
                       /\ movements[i].movement_type # "TRANSFER"
                    THEN movements[i].quantity ELSE 0)
                   - (IF movements[i].from_warehouse = w THEN movements[i].quantity ELSE 0)])

\* C7 as stated: every StockRecord's quantity is the net of the deltas of
\* all movements that touched its pair, + for the destination and - for the
\* source of each movement.
C7_AsStated ==
    \A p \in Products, w \in Warehouses :
        stock[<<p, w>>].exists => stock[<<p, w>>].quantity = NetDelta(p, w)

\* C7 amended: every StockRecord's quantity is the net of the movement
\* deltas on its pair, + for the destination of each Entry and Adjustment,
\* - for the source of each Exit, Transfer and Adjustment; a Transfer adds
\* nothing to its destination.
C7_NetOfDeltasTransferSourceOnly ==
    \A p \in Products, w \in Warehouses :
        stock[<<p, w>>].exists =>
            stock[<<p, w>>].quantity = NetDeltaSourceOnlyTransfer(p, w)

\* a Transfer into a warehouse whose StockRecord exists and holds stock
C7_Witness ==
    \E k \in DOMAIN movements :
        LET m == movements[k]
        IN  /\ m.movement_type = "TRANSFER"
            /\ stock[<<m.product, m.to_warehouse>>].exists
            /\ stock[<<m.product, m.to_warehouse>>].quantity > 0
            /\ stock[<<m.product, m.from_warehouse>>].exists

\* C8: when every call passes allow_negative = False, every StockRecord
\* quantity is >= 0 in every reachable state.
C8_NonNegativeStock ==
    \A p \in Products, w \in Warehouses : stock[<<p, w>>].quantity >= 0

\* an Exit was refused with NegativeStock on a record that earlier calls
\* had brought down to 0.00
C8_Witness ==
    /\ last.op = "exit" /\ last.res = "NegativeStock"
    /\ stock[<<last.product, last.warehouse>>].exists
    /\ stock[<<last.product, last.warehouse>>].quantity = 0
    /\ Len(movements) >= 2

\* the cases in which a call is malformed
Malformed(call) ==
    LET q == ToDecimal(call.quantity)
    IN  CASE call.op \in {"entry", "exit"} -> q <= 0
          [] call.op = "transfer" -> q <= 0 \/ call.warehouse = call.to
          [] call.op = "adjustment" -> q = 0
          [] OTHER -> FALSE

\* C9: a ledger call ends with InvalidMovement exactly when it is an Entry,
\* Exit or Transfer whose rounded quantity is <= 0, an Adjustment whose
\* rounded signed quantity is 0, or a Transfer from a warehouse to itself.
C9_InvalidMovementExactly ==
    [][IsLedgerCall => (last'.res = "InvalidMovement" <=> Malformed(last'))]_vars

\* an Adjustment of -0.004, which rounds to 0.00, was refused
C9_Witness ==
    /\ last.op = "adjustment" /\ last.quantity = -4
    /\ last.res = "InvalidMovement"

\* C10: a ledger call that fails with InvalidMovement or NegativeStock leaves
\* the persisted state as it was: no StockRecord created or changed, the
\* cost basis and the movement log unchanged.
C10_FailedCallChangesNothing ==
    [][(IsLedgerCall /\ last'.res \in {"InvalidMovement", "NegativeStock"}) =>
          (stock' = stock /\ avg_cost' = avg_cost /\ vat_percent' = vat_percent
             /\ movements' = movements)]_vars

\* NegativeStock on a pair that has no StockRecord
C10_Witness ==
    /\ last.res = "NegativeStock"
    /\ ~stock[<<last.product, last.warehouse>>].exists
    /\ movements # <<>>

\* sales records that carry the order's reference
SalesOf(order_id) == {k \in DOMAIN sales : sales[k].reference = Reference(order_id)}
\* ledger Exits and sale lines linked to those sales records
ExitsOf(order_id) ==
    {i \in DOMAIN movements :
        movements[i].movement_type = "EXIT" /\ movements[i].sale \in SalesOf(order_id)}
SaleItemsOf(order_id) ==
    {i \in DOMAIN sale_items : sale_items[i].sale \in SalesOf(order_id)}
\* the order lines that can resolve at all: an item id and a positive quantity
Resolvable(order_id) ==
    {i \in DOMAIN OrderItems(order_id) :
        OrderItems(order_id)[i].item_id # "" /\ OrderItems(order_id)[i].quantity > 0}

\* C5: sync_order called twice in sequence for one order id, the first call
\* returning ok: one sales record with the reference, one Exit per resolved
\* line, and the second call returns already_processed.
C5_SecondCallAlreadyProcessed ==
    \A i, j \in DOMAIN history :
        (/\ i < j
         /\ history[i].order_id = history[j].order_id
         /\ history[i].ret = "ok"
         /\ history[j].token # "") =>
            /\ history[j].ret = "already_processed"
            /\ Cardinality(SalesOf(history[i].order_id)) = 1
            /\ Cardinality(ExitsOf(history[i].order_id))
                  = Cardinality(SaleItemsOf(history[i].order_id))

\* C6: under any interleaving of concurrent sync_order calls for one order
\* id, at most one sales record carries the order's reference and each
\* resolved order line's Exit is applied at most once.
C6_AtMostOneSalePerOrder ==
    \A o \in Orders :
        /\ Cardinality(SalesOf(o)) <= 1
        /\ Cardinality(ExitsOf(o)) <= Cardinality(Resolvable(o))

-----------------------------------------------------------------------------
(* Properties of order ingestion *)

\* the step appends one movement to the log
Appends == Len(movements') = Len(movements) + 1

\* the step ends a sync_order call
Returns == Len(history') = Len(history) + 1

\* C11: Exit and Transfer never change the product's cost basis, and the
\* unit cost on an Exit's MovementRecord is the product's persisted cost
\* basis at the time the Exit is applied, whatever Entries and Adjustments
\* other callers have committed on the product in the meantime.
C11_ExitRecordsPersistedBasis ==
    [][(Appends /\ movements'[Len(movements')].movement_type \in {"EXIT", "TRANSFER"}) =>
          LET m == movements'[Len(movements')]
          IN  /\ avg_cost' = avg_cost
              /\ (m.movement_type = "EXIT") => (m.unit_cost = avg_cost[m.product])]_vars

\* C12: a sync_order call made with a token while a sales record with the
\* order's reference exists returns already_processed whatever status the
\* remote gives for the order, and ignored_status is returned only for
\* orders that have no such record.
C12_ExistingSaleAlreadyProcessed ==
    [][Returns =>
          LET h == history'[Len(history')]
          IN  /\ (pc[h.caller] = "idle" /\ h.token # "" /\ h.ret # HTTPError
                   /\ SaleExists(h.order_id)) => h.ret = "already_processed"
              /\ (h.ret = "ignored_status") => ~SaleExists(h.order_id)]_vars

\* C13: a sync_order call in which no line resolves returns no_matches and
\* has written nothing: its steps up to the return leave the sales records,
\* sale lines, movements and StockRecords alone, and it has created or
\* updated no MarketplaceListing.
C13_NoMatchesWritesNothing ==
    [][/\ \A c \in Callers :
             (pc[c] = "resolve" /\ local'[c] # local[c]) =>
                 (sales' = sales /\ sale_items' = sale_items
                    /\ movements' = movements /\ stock' = stock)
       /\ (Returns /\ history'[Len(history')].ret = "no_matches") =>
             history'[Len(history')].upserted = {}]_vars

\* C14: in sync_order, an order line whose item has no listing mapped to a
\* product is resolved by running the matcher on the item's title: when the
\* matcher returns a product, the line joins the sale with that product and
\* the listing stores the product link.
C14_UnmappedLineIsMatched ==
    [][\A c \in Callers :
          (pc[c] = "resolve" /\ local'[c] # local[c]
             /\ local[c].idx <= Len(OrderItems(local[c].order_id))) =>
              LET line == OrderItems(local[c].order_id)[local[c].idx]
                  i == line.item_id
                  found == MatchProduct(Title(i), BuildProductIndex(ProductOrder))
              IN  (/\ line.quantity > 0
                   /\ i # ""
                   /\ ~(ml_items[i].exists /\ ml_items[i].product # NoProduct)
                   /\ found # NoProduct) =>
                      /\ ml_items'[i] = [exists |-> TRUE, product |-> found]
                      /\ Len(local'[c].matched_items) = Len(local[c].matched_items) + 1
                      /\ local'[c].matched_items[Len(local'[c].matched_items)].product.id
                            = found]_vars

\* C15: the write phase is all or nothing.  Stated for the states in which
\* no sync_order call is running: every sales record has at least one sale
\* line and exactly one Exit per sale line.
C15_WritePhaseAllOrNothing ==
    (\A c \in Callers : pc[c] = "idle") =>
        \A k \in DOMAIN sales :
            LET lines == {i \in DOMAIN sale_items : sale_items[i].sale = k}
                exits == {i \in DOMAIN movements :
                             movements[i].movement_type = "EXIT" /\ movements[i].sale = k}
            IN  lines # {} /\ Cardinality(exits) = Cardinality(lines)

C17_BatchSurvivesFailure ==
    (batch.state \in {"done", "aborted"}) =>
        /\ batch.state = "done"
        /\ (batch.order_ids # <<>>) =>
              /\ batch.pos = Len(batch.order_ids) + 1
              /\ batch.created + SumOver(batch.reasons, Reasons) = Len(batch.order_ids)
        /\ \A k \in DOMAIN history :
              history[k].ret = "ok" => SaleExists(history[k].order_id)

-----------------------------------------------------------------------------
(* Properties of the catalog synchronisation *)

\* the step processes one item of sync_items_and_stock
ProcessesItem == cat.state = "running" /\ cat' # cat

C19_UnmappedItemIsMatched ==
    [][ProcessesItem =>
          LET i == cat.item_ids[cat.pos]
              mapped == ml_items[i].exists /\ ml_items[i].product # NoProduct
              found == MatchProduct(Title(i), BuildProductIndex(ProductOrder))
          IN  /\ mapped => ml_items'[i] = ml_items[i]
              /\ (~mapped /\ found # NoProduct) =>
                    /\ ml_items'[i] = [exists |-> TRUE, product |-> found]
                    /\ cat'.matched = cat.matched + 1
                    /\ cat'.unmatched = cat.unmatched
              /\ (~mapped /\ found = NoProduct) =>
                    /\ ml_items'[i] = [exists |-> TRUE, product |-> NoProduct]
                    /\ cat'.unmatched = cat.unmatched + 1]_vars

-----------------------------------------------------------------------------
(* Properties of the token *)

\* C20: when the refresh request of a pass fails, the failure leaves the
\* pass as a MarketplaceError: no token is returned to the pass (recorded
\* as ""), the pass goes no further, and no order request is sent.
C20_RefreshFailureHaltsPass ==
    /\ \A c \in Callers : local[c].refresh # "failed"
    /\ \A k \in DOMAIN history :
          history[k].refresh = "failed" =>
              (history[k].ret = "MarketplaceError" /\ history[k].token = "")

-----------------------------------------------------------------------------
(* Properties of the matcher *)

\* the arguments of the _match_product call, normalized
MatchIndex == BuildProductIndexOf(matching.products)
TitleNorm == Normalize(matching.title)
TitleTokens == ToSet(Tokenize(matching.title))

\* the candidates whose normalized name is a substring of the normalized title
NameHits == {i \in DOMAIN MatchIndex : IsSubstring(MatchIndex[i].name_norm, TitleNorm)}

\* step 1 of the matcher: a candidate that declares group tokens survives
\* only when one of them is among the title's tokens
PassesGroupGate(e) ==
    e.group_tokens = <<>> \/ TitleTokens \cap ToSet(e.group_tokens) # {}

\* |titleTokens \cap nameTokens| / |nameTokens|, plus 0.25 when the candidate
\* has group tokens and one of them is in the title, is at least 0.30
ScoresAtLeast30(e) ==
    LET overlap == Cardinality(TitleTokens \cap ToSet(e.name_tokens))
        n == Len(e.name_tokens)
        bonus == IF e.group_tokens # <<>> /\ TitleTokens \cap ToSet(e.group_tokens) # {}
                 THEN 25 ELSE 0
    IN  n > 0 /\ 100 * overlap + bonus * n >= 30 * n

Least(S) == CHOOSE i \in S : \A j \in S : i <= j

\* C21: whenever the normalized title contains the normalized name of some
\* candidate as a substring, the matcher returns the first candidate in
\* input order whose normalized name is a substring of the title, whatever
\* the scores and the group tokens of the candidates are.
C21_SubstringAlwaysWins ==
    (matching.state = "returned" /\ NameHits # {}) =>
        matching.result = MatchIndex[Least(NameHits)].product

\* C22: a candidate returned without its normalized name being a substring
\* of the title scores at least 0.30; when no surviving candidate is a
\* substring match and every surviving candidate scores below 0.30, the
\* matcher returns no match.
C22_NeverBelowThreshold ==
    (matching.state = "returned") =>
        /\ \A i \in DOMAIN MatchIndex :
              (matching.result = MatchIndex[i].product /\ i \notin NameHits) =>
                  ScoresAtLeast30(MatchIndex[i])
        /\ (\A i \in DOMAIN MatchIndex :
                PassesGroupGate(MatchIndex[i]) =>
                    (i \notin NameHits /\ ~ScoresAtLeast30(MatchIndex[i]))) =>
              matching.result = NoProduct

\* the matcher has returned no match although a candidate that passes its
\* group gate shares a token with the title: its score, 0.25, is below 0.30
C22_Witness ==
    /\ matching.state = "returned"
    /\ matching.result = NoProduct
    /\ NameHits = {}
    /\ \E i \in DOMAIN MatchIndex :
          /\ MatchIndex[i].group_tokens = <<>>
          /\ Len(MatchIndex[i].name_tokens) = 4
          /\ Cardinality(TitleTokens \cap ToSet(MatchIndex[i].name_tokens)) = 1

-----------------------------------------------------------------------------
(* Properties of concurrent ledger calls *)

\* C23: concurrent ledger calls on one (product, warehouse) pair are
\* serialized.  Every StockRecord holds the sum of the signed quantities of
\* the calls that committed on its pair (none is lost; a Transfer counts
\* against its source), and the quantity a transaction checks against
\* negative stock, read under its lock, is the one the last committed call
\* left.
C23_WritersSerialized ==
    /\ \A w \in Warehouses : QuantityOf("p1", w) = NetDeltaSourceOnlyTransfer("p1", w)
    /\ \A x \in LedgerWriters :
          writers[x].pc = "locked" =>
              writers[x].read = QuantityOf(writers[x].call.product,
                                           writers[x].call.warehouse)

\* an Exit without allow_negative came in while an Entry held the lock of
\* the same pair, before anything was committed, and went through on the
\* quantity the Entry left
C23_Witness ==
    \E x \in LedgerWriters, y \in LedgerWriters :
        /\ x # y
        /\ writers[x].pc = "idle" /\ writers[y].pc = "idle"
        /\ writers[x].call.op = "exit" /\ writers[x].res = "ok"
        /\ writers[x].behind /\ writers[x].seen = 0
        /\ writers[y].call.op = "entry" /\ writers[y].res = "ok"
        /\ writers[y].call.warehouse = writers[x].call.warehouse
        /\ Len(movements) = 2
        /\ stock[<<"p1", writers[x].call.warehouse>>].quantity = 0

\* the database before any call
InitDB ==
    [stock |-> [k \in Products \X Warehouses |-> NoRow],
     avg_cost |-> [p \in Products |-> 0],
     vat_percent |-> [p \in Products |-> 0],
     movements |-> <<>>]

\* the calls run one at a time, each on the product as the database has it
RECURSIVE RunSerially(_, _)
RunSerially(d, calls) ==
    IF calls = <<>> THEN d
    ELSE LET c == Head(calls)
         IN  RunSerially(Atomic(d, Body(d, LoadProduct(d, c.product), c)), Tail(calls))

\* C24: when two requests, each having loaded the product before the other
\* committed, have both committed an Entry or a positive Adjustment, the
\* product's cost basis is the one that running the two calls one at a time,
\* in one order or the other, gives.
C24_BasisAsInSomeSerialOrder ==
    (/\ \A x \in LedgerWriters :
           /\ writers[x].pc = "idle" /\ writers[x].res = "ok"
           /\ writers[x].seen = 0 /\ NeedsTotal(writers[x].call)
     /\ Len(movements) = 2) =>
        LET c1 == writers["w1"].call
            c2 == writers["w2"].call
        IN  avg_cost["p1"] \in {RunSerially(InitDB, <<c1, c2>>).avg_cost["p1"],
                                RunSerially(InitDB, <<c2, c1>>).avg_cost["p1"]}

-----------------------------------------------------------------------------
(* Properties of get_valid_access_token *)

\* C25: two get_valid_access_token calls that run at the same time never
\* both send a refresh request with the same refresh token, and once no
\* call is running the connection holds the token pair of the latest
\* successful refresh.
C25_RefreshSerialized ==
    /\ \A r \in Refreshers, v \in Refreshers :
          (/\ r # v
           /\ refreshers.procs[r].during /\ refreshers.procs[v].during
           /\ refreshers.procs[r].sent # None /\ refreshers.procs[v].sent # None) =>
              refreshers.procs[r].sent # refreshers.procs[v].sent
    /\ ((\A r \in Refreshers : ~Running(r)) /\ refreshers.latest # None) =>
          <<connection.access_token, connection.refresh_token>> = refreshers.latest[1]

\* the step is the test of line 119 in the call of r
Tests(r) == refreshers.procs[r].pc = "loaded" /\ refreshers'.procs[r].pc # "loaded"
\* the step is the save of line 126 in the call of r
Saves(r) == refreshers.procs[r].pc = "answered" /\ refreshers'.procs[r].pc = "idle"

\* C26: get_valid_access_token sends a refresh request exactly when the
\* connection it is given has an access token and an expiry with
\* now >= expiry - 2 minutes; after a successful refresh the stored
\* connection holds the new access token, the new refresh token and the
\* expiry now + expires_in, and the new access token is returned; when no
\* refresh is due nothing is sent and the stored connection stays as it is.
C26_RefreshWhenDue ==
    [][\A r \in Refreshers :
          LET before == refreshers.procs[r]
              after == refreshers'.procs[r]
          IN  /\ Tests(r) =>
                    /\ (after.pc = "due") <=>
                          (/\ before.conn.access_token # ""
                           /\ before.conn.expires_at # None
                           /\ now >= before.conn.expires_at[1] - 2)
                    /\ (after.pc # "due") =>
                          /\ connection' = connection
                          /\ after.sent = None
                          /\ after.token = before.conn.access_token
              /\ (before.pc = "due" /\ after.pc # "due") => after.sent # None
              /\ (Saves(r) /\ before.refreshed.error = "") =>
                    /\ connection' =
                          [access_token |-> before.refreshed.access_token[1],
                           refresh_token |-> before.refreshed.refresh_token[1],
                           expires_at |-> Some(now + before.refreshed.expires_in)]
                    /\ after.token = before.refreshed.access_token[1]]_vars

\* a call found the token exactly 2 minutes before its expiry, refreshed it
\* and returned the new access token, which the connection now holds
C26_Witness ==
    \E r \in Refreshers :
        /\ ~Running(r)
        /\ refreshers.procs[r].due
        /\ refreshers.procs[r].refreshed.error = ""
        /\ refreshers.procs[r].token = AccessToken(2)
        /\ connection.access_token = AccessToken(2)
        /\ connection.refresh_token = RefreshToken(2)
        /\ connection.expires_at = Some(now + 3)
        /\ now = 1
        /\ refreshers.calls = 1

-----------------------------------------------------------------------------
(* Properties of get_item_ids *)

Min(a, b) == IF a < b THEN a ELSE b

\* the ids the remote has handed out after k pages
Served(k) == Min(paging.remote, PageLimit * k)

\* the cap is reached after k pages
CapReached(k) == paging.max_items # None /\ Served(k) >= paging.max_items[1]

\* what get_item_ids has returned: it asked for pages of 50 at offsets
\* 0, 50, 100, ..., went on after every full page below the cap, stopped at
\* the first short page or as soon as the cap was reached, returned the ids
\* in remote order cut to the cap, and flagged them truncated exactly when
\* it stopped at the cap
PagingResult ==
    (paging.state = "returned") =>
        LET k == Len(paging.offsets)
            count == IF CapReached(k) THEN paging.max_items[1] ELSE Served(k)
        IN  /\ k >= 1
            /\ \A i \in 1..k : paging.offsets[i] = PageLimit * (i - 1)
            /\ \A i \in 1..(k - 1) : Served(i) = PageLimit * i /\ ~CapReached(i)
            /\ Served(k) < PageLimit * k \/ CapReached(k)
            /\ paging.item_ids = [i \in 1..count |-> i]
            /\ paging.truncated <=> CapReached(k)

\* C27: get_item_ids pages by 50 from offset 0, stops at the first short
\* page or at the cap, returns the ids in remote order cut to the cap with
\* truncated set exactly when it stopped at the cap, and it returns for
\* every finite remote catalog.
C27_PagesUntilShortOrCap ==
    [](PagingResult) /\ <>(paging.state = "returned")

\* two pages were requested and the 100 ids gathered cut to a cap of 75
C27_Witness ==
    /\ paging.state = "returned"
    /\ paging.offsets = <<0, 50>>
    /\ paging.gathered = 100
    /\ Len(paging.item_ids) = 75
    /\ paging.truncated

-----------------------------------------------------------------------------
(* Properties of the cost basis *)

\* C28: in every state the ledger operations reach, Exits and Adjustments
\* with allow_negative and positive Adjustments at a non-negative unit
\* cost included, the cost basis of every product is >= 0.
C28_BasisNeverNegative ==
    \A p \in Products : avg_cost[p] >= 0

\* C29: a positive Adjustment made without a unit cost leaves the product's
\* cost basis as it was, whatever the product's total quantity is, zero and
\* negative totals included.
C29_CostlessAdjustmentKeepsBasis ==
    [][(/\ IsCall("adjustment")
        /\ last'.res = "ok"
        /\ ToDecimal(last'.quantity) > 0
        /\ last'.unit_cost = None) => avg_cost' = avg_cost]_vars

-----------------------------------------------------------------------------
(* Properties of a repeated catalog synchronisation *)

\* C30: when sync_items_and_stock runs again on the remote items and
\* quantities of the run before, with the same links and no other ledger
\* call in between, the second run issues no Adjustment: no item of it
\* writes a movement or changes a StockRecord, and its updated_stock
\* counter stays 0, whatever products the listings are linked to, one
\* product for several listings included.
C30_SecondRunChangesNothing ==
    [][(ProcessesItem /\ cat.runs >= 2) =>
          /\ movements' = movements
          /\ stock' = stock
          /\ cat'.updated_stock = 0]_vars

====
